---- MODULE Spec2Model ----
(***************************************************************************)
(* SentimentService.analyzeComments (server/services/sentiment.ts): the    *)
(* comment sampler, the classification gateway with its health check and   *)
(* fallback, and the rating aggregator, as one state machine per analysis. *)
(* The classifier and the heuristics on a single comment (ProbeSpec) and   *)
(* the handler of POST /api/videos/:id/analyze (RouteSpec) are state       *)
(* machines of their own over the same variables.                          *)
(*                                                                         *)
(* Numbers: an engagement score is kept in tenths (likeCount*10 + length + *)
(* 100 if verified), a comment weight in tenths, a sentiment score in      *)
(* hundredths, and rating/confidence as exact fractions <<num, den>>.      *)
(* Math.round(x*100)/100 is Round2.  Comparisons of ratios with decimal    *)
(* literals are done on the cross-multiplied integers.                     *)
(***************************************************************************)
EXTENDS Integers, Sequences, FiniteSets, TLC

\* ------------------------------------------------------------- bounds
\* comment counts 0..MaxSmall, and every count within Spread of a threshold
MaxSmall == 3
Spread == 1
\* how many batch requests of one analysis may go wrong, in a dispatch of at
\* most MaxFaultyDispatch batches
MaxFaults == 1
MaxFaultyDispatch == 3
\* the random fill is one of the rotations 0..MaxShuffle of the remainder
MaxShuffle == 1

\* ------------------------------------------------------------- text
UpperCase == "ABCDEFGHIJKLMNOPQRSTUVWXYZ"
LowerCase == "abcdefghijklmnopqrstuvwxyz"

CharAt(s, i) == SubSeq(s, i, i)

LowerChar(c) ==
  IF \E i \in 1..Len(UpperCase) : CharAt(UpperCase, i) = c
    THEN CharAt(LowerCase, CHOOSE i \in 1..Len(UpperCase) : CharAt(UpperCase, i) = c)
    ELSE c

RECURSIVE toLowerCase(_)
toLowerCase(s) ==
  IF Len(s) = 0 THEN ""
  ELSE LowerChar(CharAt(s, 1)) \o toLowerCase(SubSeq(s, 2, Len(s)))

\* String.prototype.includes
includes(s, w) ==
  \E i \in 1..(Len(s) - Len(w) + 1) : SubSeq(s, i, i + Len(w) - 1) = w

\* ------------------------------------------------------------- fractions
Min(a, b) == IF a < b THEN a ELSE b
Max(a, b) == IF a > b THEN a ELSE b
Abs(a) == IF a < 0 THEN 0 - a ELSE a

Frac(a, b) == <<a, b>>
FracLeq(p, q) == p[1] * q[2] <= q[1] * p[2]
FracMul(p, q) == <<p[1] * q[1], p[2] * q[2]>>
FracMin(p, q) == IF FracLeq(p, q) THEN p ELSE q
FracMax(p, q) == IF FracLeq(p, q) THEN q ELSE p
FracEq(p, q) == p[1] * q[2] = q[1] * p[2]
FloorDiv(a, b) == IF a >= 0 THEN a \div b ELSE 0 - ((0 - a + b - 1) \div b)

\* ------------------------------------------------------------- modes
\* ANALYSIS_MODES
FAST == [maxComments |-> 150, batchSize |-> 30, strategy |-> "top_engagement"]
BALANCED == [maxComments |-> 300, batchSize |-> 50, strategy |-> "stratified"]
COMPREHENSIVE == [maxComments |-> 500, batchSize |-> 75, strategy |-> "stratified"]

FastBelow == 200
ComprehensiveAbove == 1000

\* the mode chosen at the top of analyzeComments
chooseModeStrict(n) ==
  IF n <= FastBelow THEN FAST
  ELSE IF n >= ComprehensiveAbove THEN COMPREHENSIVE
  ELSE BALANCED

chooseMode(n) ==
  IF n < FastBelow THEN FAST
  ELSE IF n > ComprehensiveAbove THEN COMPREHENSIVE
  ELSE BALANCED

\* ------------------------------------------------------------- inputs
\* The comments an analysis is called with: comment i of n (i = 1..n, its
\* position in the caller's array) is a copy of Kinds[pattern[..]], the
\* pattern repeating over the list.  Kinds 6 to 10 are kinds 1 to 5 under
\* another author name, two of them with another text of the same length and
\* the same keywords: the same comment to the sampler and the classifiers,
\* another one to the spam and bot heuristics.
Kinds == <<
  [textOriginal |-> "Great video, love it", likeCount |-> 0,
   isVerified |-> FALSE, authorDisplayName |-> "Alice"],
  [textOriginal |-> "worst video ever, so boring", likeCount |-> 0,
   isVerified |-> FALSE, authorDisplayName |-> "Bob Smith"],
  [textOriginal |-> "ok", likeCount |-> 3,
   isVerified |-> FALSE, authorDisplayName |-> "carol"],
  [textOriginal |-> "SUBSCRIBE TO MY CHANNEL NOW", likeCount |-> 12,
   isVerified |-> FALSE, authorDisplayName |-> "User123"],
  [textOriginal |-> "I tried this for 2 weeks and it is not bad, I like it",
   likeCount |-> 25, isVerified |-> TRUE, authorDisplayName |-> "Dave"],
  [textOriginal |-> "Great subscribe love", likeCount |-> 0,
   isVerified |-> FALSE, authorDisplayName |-> "User123"],
  [textOriginal |-> "worst video ever, so boring", likeCount |-> 0,
   isVerified |-> FALSE, authorDisplayName |-> "RandomUser7"],
  [textOriginal |-> "ok", likeCount |-> 3,
   isVerified |-> FALSE, authorDisplayName |-> "bob99"],
  [textOriginal |-> "nothing to see in here, bye", likeCount |-> 12,
   isVerified |-> FALSE, authorDisplayName |-> "Erin"],
  [textOriginal |-> "I tried this for 2 weeks and it is not bad, I like it",
   likeCount |-> 25, isVerified |-> TRUE, authorDisplayName |-> "User123"] >>

\* the pattern of the same comments under the other author names
otherAuthors(pat) == [j \in 1..Len(pat) |-> pat[j] + Len(Kinds) \div 2]

Patterns == { <<1>>, <<2>>, <<1, 2, 3>>, <<4, 5>>, <<3, 5, 2, 1>>, <<1, 2, 2, 3, 3, 3, 4>> }

CommentAt(pat, i) == Kinds[pat[((i - 1) % Len(pat)) + 1]]

Near(t) == (t - Spread)..(t + Spread)
Sizes ==
  (0..MaxSmall) \cup Near(FAST.batchSize) \cup Near(2 * FAST.batchSize)
    \cup Near(FAST.maxComments)
    \cup Near(FastBelow) \cup Near((BALANCED.maxComments * 8) \div 10)
    \cup Near(BALANCED.maxComments) \cup Near(ComprehensiveAbove)

\* the Video argument; present = FALSE is a call without it
NoVideo == [present |-> FALSE, viewCount |-> 0, likeCount |-> 0, commentCount |-> 0]
Videos == {
  NoVideo,
  [present |-> TRUE, viewCount |-> 0, likeCount |-> 0, commentCount |-> 0],
  [present |-> TRUE, viewCount |-> 1000000, likeCount |-> 80000, commentCount |-> 1200],
  [present |-> TRUE, viewCount |-> 2000, likeCount |-> 30, commentCount |-> 1],
  [present |-> TRUE, viewCount |-> 1000, likeCount |-> 20, commentCount |-> 5],
  [present |-> TRUE, viewCount |-> 100, likeCount |-> 8, commentCount |-> 0] }

\* ------------------------------------------------------------- sampling
\* Array.prototype.slice(a, b): zero-based, b exclusive, clamped to the array
slice(s, a, b) == SubSeq(s, Min(a, Len(s)) + 1, Min(b, Len(s)))

\* the sort key of both strategies, in tenths
sortScore(c) ==
  c.likeCount * 10 + Len(c.textOriginal) + (IF c.isVerified = TRUE THEN 100 ELSE 0)

\* comments.sort((a, b) => bScore - aScore): stable, descending by score
sortByEngagement(pat, ids) ==
  LET score(i) == sortScore(CommentAt(pat, i))
      scores == {score(ids[j]) : j \in 1..Len(ids)}
      RECURSIVE build(_)
      build(S) ==
        IF S = {} THEN <<>>
        ELSE LET m == CHOOSE x \in S : \A y \in S : y <= x
             IN SelectSeq(ids, LAMBDA i : score(i) = m) \o build(S \ {m})
  IN build(scores)

\* remainingComments.sort(() => Math.random() - 0.5): some permutation of the
\* remainder; the model draws it among the rotations by r
shuffle(s, r) ==
  IF Len(s) = 0 THEN s
  ELSE LET k == r % Len(s) IN SubSeq(s, k + 1, Len(s)) \o SubSeq(s, 1, k)

sampleShuffled(pat, n, r, chosen) ==
  slice(shuffle(sortByEngagement(pat, [i \in 1..n |-> i]), r), 0, chosen.maxComments)

\* commentsToAnalyze, as the ids of the chosen comments in order
sample(pat, n, r, chosen) ==
  LET sorted == sortByEngagement(pat, [i \in 1..n |-> i])
  IN IF chosen.strategy = "top_engagement"
       THEN slice(sorted, 0, chosen.maxComments)
     ELSE IF chosen.strategy = "stratified"
       THEN LET topCount == (chosen.maxComments * 4) \div 10
                middleCount == (chosen.maxComments * 4) \div 10
                randomCount == chosen.maxComments - topCount - middleCount
                topComments == slice(sorted, 0, topCount)
                middleStart == (Len(sorted) * 3) \div 10
                middleComments == slice(sorted, middleStart, middleStart + middleCount)
                remainingComments == slice(sorted, topCount + middleCount, Len(sorted))
                randomComments == slice(shuffle(remainingComments, r), 0, randomCount)
            IN topComments \o middleComments \o randomComments
     ELSE slice([i \in 1..n |-> i], 0, chosen.maxComments)

\* ------------------------------------------------------------- local classifier
positiveWords == <<"good", "great", "amazing", "awesome", "love", "like",
                   "excellent", "perfect", "best", "wonderful", "fantastic", "brilliant">>
negativeWords == <<"bad", "terrible", "awful", "hate", "dislike", "worst",
                   "horrible", "disappointing", "waste", "boring", "stupid">>

Neutral == [sentiment |-> "neutral", score |-> 50]

simpleSentimentCaseSensitive(text) ==
  LET positiveCount == Cardinality({j \in 1..Len(positiveWords) : includes(text, positiveWords[j])})
      negativeCount == Cardinality({j \in 1..Len(negativeWords) : includes(text, negativeWords[j])})
  IN IF positiveCount > negativeCount THEN [sentiment |-> "positive", score |-> 80]
     ELSE IF negativeCount > positiveCount THEN [sentiment |-> "negative", score |-> 20]
     ELSE [sentiment |-> "neutral", score |-> 50]

\* the keyword fallback; score in hundredths
simpleSentimentAnalysis(text) ==
  LET lowerText == toLowerCase(text)
      positiveCount == Cardinality({j \in 1..Len(positiveWords) : includes(lowerText, positiveWords[j])})
      negativeCount == Cardinality({j \in 1..Len(negativeWords) : includes(lowerText, negativeWords[j])})
  IN IF positiveCount > negativeCount THEN [sentiment |-> "positive", score |-> 80]
     ELSE IF negativeCount > positiveCount THEN [sentiment |-> "negative", score |-> 20]
     ELSE [sentiment |-> "neutral", score |-> 50]

\* ------------------------------------------------------------- heuristic detector
spamIndicators == <<"subscribe", "check out my channel", "visit my channel", "follow me",
                    "like and subscribe", "smash the like button", "click the link",
                    "free money", "make money", "earn money", "get rich quick">>

detectSpam(comment) ==
  LET text == toLowerCase(comment.textOriginal)
  IN \E j \in 1..Len(spamIndicators) : includes(text, spamIndicators[j])

Digits == "0123456789"
IsUpper(c) == \E i \in 1..Len(UpperCase) : CharAt(UpperCase, i) = c
IsLetter(c) == IsUpper(c) \/ \E i \in 1..Len(LowerCase) : CharAt(LowerCase, i) = c
IsDigit(c) == \E i \in 1..Len(Digits) : CharAt(Digits, i) = c
\* \s, for the white space a comment of Kinds can hold
IsSpace(c) == c = " "

\* /^[A-Z\s!]+$/
allCaps(text) ==
  /\ Len(text) >= 1
  /\ \A i \in 1..Len(text) :
       LET c == CharAt(text, i) IN IsUpper(c) \/ IsSpace(c) \/ c = "!"

\* /(.)\1{4,}/
repeatedChars(text) ==
  \E i \in 1..(Len(text) - 4) : \A d \in 1..4 : CharAt(text, i + d) = CharAt(text, i)

\* /^[A-Za-z]+\d+$/
genericUsername(name) ==
  \E k \in 1..(Len(name) - 1) :
    /\ \A i \in 1..k : IsLetter(CharAt(name, i))
    /\ \A i \in (k + 1)..Len(name) : IsDigit(CharAt(name, i))

detectBotBehavior(comment) ==
  LET text == comment.textOriginal
  IN \/ Len(text) < 10
     \/ allCaps(text)
     \/ repeatedChars(text)
     \/ includes(comment.authorDisplayName, "RandomUser")
     \/ includes(comment.authorDisplayName, "User123")
     \/ genericUsername(comment.authorDisplayName)

\* \w of a regular expression
IsWordChar(c) == IsLetter(c) \/ IsDigit(c) \/ c = "_"

\* /\bw\b/ for a word w of word characters
hasWord(text, w) ==
  \E i \in 1..(Len(text) - Len(w) + 1) :
    /\ SubSeq(text, i, i + Len(w) - 1) = w
    /\ i = 1 \/ ~IsWordChar(CharAt(text, i - 1))
    /\ i + Len(w) > Len(text) \/ ~IsWordChar(CharAt(text, i + Len(w)))

\* /\b\d+\b/
hasNumber(text) ==
  \E i \in 1..Len(text) : \E j \in i..Len(text) :
    /\ \A k \in i..j : IsDigit(CharAt(text, k))
    /\ i = 1 \/ ~IsWordChar(CharAt(text, i - 1))
    /\ j = Len(text) \/ ~IsWordChar(CharAt(text, j + 1))

timeWords == <<"minute", "hour", "day", "week", "month", "year">>
personalWords == <<"i", "my", "me", "tried", "used", "bought", "purchased">>

\* /\?/
hasQuestions(text) == includes(text, "?")
\* /\b(minute|hour|day|week|month|year|\d+)\b/
hasSpecificDetails(text) ==
  hasNumber(text) \/ \E j \in 1..Len(timeWords) : hasWord(text, timeWords[j])
\* /\b(I|my|me|tried|used|bought|purchased)\b/i
hasPersonalExperience(text) ==
  \E j \in 1..Len(personalWords) : hasWord(toLowerCase(text), personalWords[j])
\* /[\uD800-\uDBFF][\uDC00-\uDFFF]/: a high surrogate followed by a low one.
\* A text writes the two UTF-16 units of such a pair as "{" and "}".
hasEmojis(text) ==
  \E i \in 1..(Len(text) - 1) : CharAt(text, i) = "{" /\ CharAt(text, i + 1) = "}"
\* /[!]{3,}|[?]{3,}|[.]{3,}/
hasExcessivePunctuation(text) ==
  includes(text, "!!!") \/ includes(text, "???") \/ includes(text, "...")
\* /^[A-Z\s!?.,]{10,}$/
hasAllCaps(text) ==
  /\ Len(text) >= 10
  /\ \A i \in 1..Len(text) :
       LET c == CharAt(text, i)
       IN IsUpper(c) \/ IsSpace(c) \/ c \in {"!", "?", ".", ","}

calculateTrustScoreUnclamped(comment, isSpam, isBotLike, isSuspicious) ==
  LET text == comment.textOriginal
      likes == comment.likeCount
      score ==
        10
        + (IF comment.isVerified = TRUE THEN 6 ELSE 0)
        + (IF likes > 20 THEN 4 ELSE IF likes > 5 THEN 2 ELSE 0)
        + (IF Len(text) > 100 THEN 3 ELSE IF Len(text) > 50 THEN 2 ELSE 0)
        + (IF hasSpecificDetails(text) THEN 2 ELSE 0)
        + (IF hasPersonalExperience(text) THEN 2 ELSE 0)
        + (IF hasQuestions(text) THEN 1 ELSE 0)
        \* likeCount / Math.max(1, length / 10) > 2
        + (IF likes * 10 > 2 * Max(10, Len(text)) THEN 2 ELSE 0)
        - (IF isSpam THEN 10 ELSE 0)
        - (IF isBotLike THEN 8 ELSE 0)
        - (IF isSuspicious THEN 6 ELSE 0)
        - (IF likes = 0 /\ Len(text) < 20 THEN 4 ELSE 0)
        - (IF hasAllCaps(text) THEN 2 ELSE 0)
        - (IF hasExcessivePunctuation(text) THEN 1 ELSE 0)
        - (IF hasEmojis(text) /\ Len(text) < 50 THEN 1 ELSE 0)
  IN score

\* calculateTrustScore of a comment whose flags are already written, in halves
calculateTrustScore(comment, isSpam, isBotLike, isSuspicious) ==
  LET text == comment.textOriginal
      likes == comment.likeCount
      score ==
        10
        + (IF comment.isVerified = TRUE THEN 6 ELSE 0)
        + (IF likes > 20 THEN 4 ELSE IF likes > 5 THEN 2 ELSE 0)
        + (IF Len(text) > 100 THEN 3 ELSE IF Len(text) > 50 THEN 2 ELSE 0)
        + (IF hasSpecificDetails(text) THEN 2 ELSE 0)
        + (IF hasPersonalExperience(text) THEN 2 ELSE 0)
        + (IF hasQuestions(text) THEN 1 ELSE 0)
        \* likeCount / Math.max(1, length / 10) > 2
        + (IF likes * 10 > 2 * Max(10, Len(text)) THEN 2 ELSE 0)
        - (IF isSpam THEN 10 ELSE 0)
        - (IF isBotLike THEN 8 ELSE 0)
        - (IF isSuspicious THEN 6 ELSE 0)
        - (IF likes = 0 /\ Len(text) < 20 THEN 4 ELSE 0)
        - (IF hasAllCaps(text) THEN 2 ELSE 0)
        - (IF hasExcessivePunctuation(text) THEN 1 ELSE 0)
        - (IF hasEmojis(text) /\ Len(text) < 50 THEN 1 ELSE 0)
  IN Max(0, Min(20, score))

\* what the annotation loop derives from a comment's own text and author,
\* once per kind of comment
KindFacts ==
  [k \in 1..Len(Kinds) |->
     [fallback |-> simpleSentimentAnalysis(Kinds[k].textOriginal),
      isSpam |-> detectSpam(Kinds[k]),
      isBotLike |-> detectBotBehavior(Kinds[k]),
      trustScore |-> calculateTrustScore(
                       Kinds[k], detectSpam(Kinds[k]), detectBotBehavior(Kinds[k]),
                       detectSpam(Kinds[k]) \/ detectBotBehavior(Kinds[k]))]]

KindOf(pat, i) == pat[((i - 1) % Len(pat)) + 1]

\* ------------------------------------------------------------- classification gateway
\* a call either returns a value or throws
Return(v) == [threw |-> FALSE, value |-> v]
Throw == [threw |-> TRUE, value |-> FALSE]

\* What the GET /sentiment/status fetch can do: reject, run into the 5 s
\* AbortSignal, or resolve with a status line and a body.
HealthOutcomes == {
  [fetch |-> "resolve", ok |-> TRUE, body |-> "json", status |-> "healthy", model_loaded |-> TRUE],
  [fetch |-> "resolve", ok |-> TRUE, body |-> "json", status |-> "healthy", model_loaded |-> FALSE],
  [fetch |-> "resolve", ok |-> TRUE, body |-> "json", status |-> "loading", model_loaded |-> TRUE],
  [fetch |-> "resolve", ok |-> TRUE, body |-> "garbage", status |-> "healthy", model_loaded |-> TRUE],
  [fetch |-> "resolve", ok |-> FALSE, body |-> "json", status |-> "healthy", model_loaded |-> TRUE],
  [fetch |-> "reject", ok |-> FALSE, body |-> "garbage", status |-> "loading", model_loaded |-> FALSE],
  [fetch |-> "timeout", ok |-> FALSE, body |-> "garbage", status |-> "loading", model_loaded |-> FALSE] }
NoHealth == [fetch |-> "none", ok |-> FALSE, body |-> "garbage", status |-> "loading", model_loaded |-> FALSE]

healthTryStatusOnly(o) ==
  IF o.fetch # "resolve" THEN Throw
  ELSE IF o.ok
    THEN IF o.body # "json" THEN Throw
         ELSE Return(o.status = "healthy")
  ELSE Return(FALSE)

\* the try block of checkSentimentServiceHealth
healthTry(o) ==
  IF o.fetch # "resolve" THEN Throw
  ELSE IF o.ok
    THEN IF o.body # "json" THEN Throw
         ELSE Return(o.status = "healthy" /\ o.model_loaded = TRUE)
  ELSE Return(FALSE)

healthNoCatch(o) == healthTry(o)

\* checkSentimentServiceHealth: the catch turns every throw into false
checkSentimentServiceHealth(o) ==
  LET r == healthTry(o) IN IF r.threw THEN Return(FALSE) ELSE r

\* What one POST /sentiment fetch can do.  "full", "short" and "long" are
\* success responses whose results array has as many results as texts, one
\* fewer, one more; the others fail before a results array is read.
BatchFaults == {"short", "long", "reject", "timeout", "http_error", "bad_json", "no_results"}
BatchOutcomes == {"full"} \cup BatchFaults

\* The external classifier's answer for the text at position g of the sampled
\* list: any label and score may come back; here they vary with the position.
RawLabels == <<"positive", "negative", "neutral", "LABEL_1">>
classifierResult(g) ==
  [label |-> RawLabels[(g % Len(RawLabels)) + 1], score |-> (g * 37) % 101]

\* data.results of the response to the batch of len texts that starts at
\* position first of the sampled list
responseResults(first, len, outcome) ==
  LET count == IF outcome = "short" THEN len - 1
               ELSE IF outcome = "long" THEN len + 1 ELSE len
  IN [j \in 1..count |-> classifierResult(first + j - 1)]

mapLabel(r) ==
  [sentiment |-> IF r.label = "positive" THEN "positive"
                 ELSE IF r.label = "negative" THEN "negative" ELSE "neutral",
   score |-> r.score]

\* the try block of analyzeSentimentsWithHuggingFace
huggingFaceTry(first, len, outcome) ==
  IF outcome \in {"reject", "timeout"} THEN Throw
  ELSE IF outcome = "http_error" THEN Throw
  ELSE IF outcome \in {"bad_json", "no_results"} THEN Throw
  ELSE LET results == responseResults(first, len, outcome)
       IN Return([j \in 1..Len(results) |-> mapLabel(results[j])])

\* analyzeSentimentsWithHuggingFace: the catch answers neutral/0.5 per text
analyzeSentimentsWithHuggingFace(first, len, outcome) ==
  LET r == huggingFaceTry(first, len, outcome)
  IN IF r.threw THEN Return([j \in 1..len |-> Neutral]) ELSE r

\* the batches of texts: batch b holds positions batchFirst..batchFirst+batchLen-1
batchCount(m, batchSize) == (m + batchSize - 1) \div batchSize
batchFirst(b, batchSize) == (b - 1) * batchSize + 1
batchLen(b, m, batchSize) == Min(batchSize, m - (b - 1) * batchSize)

batchRequestsAlways(healthy, m, batchSize) ==
  [b \in 1..batchCount(m, batchSize) |-> 1]

\* if (serviceHealthy) batches.map(batch => analyzeSentimentsWithHuggingFace(batch)):
\* the POST /sentiment requests sent, per batch
batchRequests(healthy, m, batchSize) ==
  IF healthy THEN [b \in 1..batchCount(m, batchSize) |-> 1] ELSE <<>>

\* ------------------------------------------------------------- rating aggregator
NaN == Frac(0, 0)
IsNaN(p) == p[2] = 0
\* a / b of two numbers >= 0 as JavaScript computes it when a = 0 or b # 0
Divide(a, b) == Frac(a, b)
\* comparisons with NaN are false
FracLess(p, q) == ~IsNaN(p) /\ ~IsNaN(q) /\ p[1] * q[2] < q[1] * p[2]
\* Math.round(x * 100) / 100 for x >= 0
Round2(p) == Frac(FloorDiv(200 * p[1] + p[2], 2 * p[2]), 100)
NoClamp(p) == p
\* Math.max(0, Math.min(5, x))
clamp05(p) == FracMax(Frac(0, 1), FracMin(Frac(5, 1), p))

\* while (sentiments.length < commentsToAnalyze.length) push neutral
padSentiments(sents, m) ==
  IF Len(sents) < m THEN sents \o [j \in 1..(m - Len(sents)) |-> Neutral] ELSE sents

\* sentiments[i] || { sentiment: "neutral", score: 0.5 }
sentimentAt(sents, i) == IF i <= Len(sents) THEN sents[i] ELSE Neutral

annotatedBySentiment(kind, s) ==
  [sentiment |-> s.sentiment, sentimentScore |-> s.score,
   isSpam |-> KindFacts[kind].isSpam /\ s.sentiment # "positive",
   isBotLike |-> KindFacts[kind].isBotLike,
   isSuspicious |-> (KindFacts[kind].isSpam /\ s.sentiment # "positive")
                      \/ KindFacts[kind].isBotLike,
   trustScore |-> KindFacts[kind].trustScore]

annotatedWithoutTrust(kind, s) ==
  [sentiment |-> s.sentiment, sentimentScore |-> s.score,
   isSpam |-> KindFacts[kind].isSpam, isBotLike |-> KindFacts[kind].isBotLike,
   isSuspicious |-> KindFacts[kind].isSpam \/ KindFacts[kind].isBotLike]

\* the fields the annotation loop writes on one comment
annotated(kind, s) ==
  [sentiment |-> s.sentiment, sentimentScore |-> s.score,
   isSpam |-> KindFacts[kind].isSpam, isBotLike |-> KindFacts[kind].isBotLike,
   isSuspicious |-> KindFacts[kind].isSpam \/ KindFacts[kind].isBotLike,
   trustScore |-> KindFacts[kind].trustScore]

\* The comment objects after the annotation loop ran over positions lo..hi
\* of the sampled list, by comment id.  A comment sampled twice is one
\* object: the later position's write is the one that stays.
RECURSIVE annotate(_, _, _, _, _)
annotate(pat, ids, sents, lo, hi) ==
  IF lo > hi THEN <<>>
  ELSE IF lo = hi THEN ids[lo] :> annotated(KindOf(pat, ids[lo]), sentimentAt(sents, lo))
  ELSE annotate(pat, ids, sents, ((lo + hi) \div 2) + 1, hi)
         @@ annotate(pat, ids, sents, lo, (lo + hi) \div 2)

weightLessForBots(c) ==
  10 + c.likeCount + (IF c.isVerified = TRUE THEN 5 ELSE 0)
    - (IF detectBotBehavior(c) THEN 5 ELSE 0)

\* 1 + likeCount / 10 + (isVerified ? 0.5 : 0), in tenths
weight(c) == 10 + c.likeCount + (IF c.isVerified = TRUE THEN 5 ELSE 0)

\* the branch of the if / else if / else on comment.sentiment
category(label) == IF label \in {"positive", "negative"} THEN label ELSE "neutral"

\* The weighting loop over positions lo..hi: the weights of the comments
\* whose sentiment field falls in the category.
RECURSIVE weighted(_, _, _, _, _, _)
weighted(pat, ids, heap, which, lo, hi) ==
  IF lo > hi THEN 0
  ELSE IF lo = hi
    THEN IF category(heap[ids[lo]].sentiment) = which
           THEN weight(CommentAt(pat, ids[lo])) ELSE 0
  ELSE weighted(pat, ids, heap, which, lo, (lo + hi) \div 2)
         + weighted(pat, ids, heap, which, ((lo + hi) \div 2) + 1, hi)

\* likeScore and commentScore of the engagement modifier, in hundredths
modifierLikeScore(video) ==
  LET views == Max(1, video.viewCount)
  IN IF video.likeCount * 100 >= 5 * views THEN 125
     ELSE IF video.likeCount * 100 >= 2 * views THEN 115
     ELSE IF video.likeCount * 100 >= views THEN 105
     ELSE 100

modifierCommentScore(video) ==
  LET views == Max(1, video.viewCount)
  IN IF video.commentCount * 1000 >= 5 * views THEN 120
     ELSE IF video.commentCount * 1000 >= views THEN 110
     ELSE IF video.commentCount * 10000 >= 5 * views THEN 102
     ELSE 100

engagementModifier(video) ==
  IF video.present
    THEN Frac(modifierLikeScore(video) + modifierCommentScore(video), 200)
    ELSE Frac(1, 1)

baseRatingHalfNeutral(weightedPos, weightedNeu, weightedNeg) ==
  LET totalWeight == weightedPos + weightedNeu + weightedNeg
  IN Round2(clamp05(Frac((weightedPos * 10 + weightedNeu * 5 - weightedNeg * 2) * 5,
                         totalWeight * 10)))

\* baseRating of a non-empty sample from the summed weights (in tenths)
baseRatingOf(weightedPos, weightedNeu, weightedNeg) ==
  LET totalWeight == weightedPos + weightedNeu + weightedNeg
  IN Round2(clamp05(Frac((weightedPos * 10 + weightedNeu * 8 - weightedNeg * 2) * 5,
                         totalWeight * 10)))

\* confidence of a non-empty sample
confidenceOf(pos, neg, total, fullCount) ==
  LET sampleRatio == Divide(total, fullCount)
      distributionBalance == Frac(total - Abs(pos - neg), total)
  IN FracMin(Frac(1, 1),
             FracMul(FracMul(sampleRatio, distributionBalance), Frac(total, 100)))

finalRatingUnscaled(baseRating, engagementScore) ==
  Round2(clamp05(baseRating))

finalRating(baseRating, engagementScore) ==
  Round2(clamp05(FracMul(baseRating, engagementScore)))

\* (count / totalComments) * 100
percentage(cnt, totalComments) ==
  IF totalComments = 0 THEN NaN ELSE Frac(cnt * 100, totalComments)

\* Math.round of a percentage, for the label
roundLabel(p) ==
  IF IsNaN(p) THEN [nan |-> TRUE, value |-> 0]
  ELSE [nan |-> FALSE, value |-> FloorDiv(2 * p[1] + p[2], 2 * p[2])]

Indicator(type, label, color, pct) ==
  [type |-> type, label |-> label, color |-> color, percent |-> pct]
NoPercent == [nan |-> FALSE, value |-> 0]

qualityIndicatorsAnyVideo(spamPercentage, botPercentage, verifiedPercentage, video) ==
  LET five == Frac(5, 1)
      spam == IF FracLess(spamPercentage, five)
                THEN <<Indicator("spam", "Low Spam", "success", NoPercent)>>
              ELSE IF FracLess(Frac(20, 1), spamPercentage)
                THEN <<Indicator("spam", "High Spam", "warning", NoPercent)>>
              ELSE <<>>
      bot == IF FracLess(botPercentage, five)
               THEN <<Indicator("bot", "% Bot Activity", "success", roundLabel(botPercentage))>>
               ELSE <<Indicator("bot", "% Bot Activity", "danger", roundLabel(botPercentage))>>
      verified == IF FracLess(Frac(10, 1), verifiedPercentage)
                    THEN <<Indicator("verified", "Verified Users", "success", NoPercent)>>
                    ELSE <<>>
      views == Max(1, video.viewCount)
      engagement ==
        IF TRUE
          THEN IF video.likeCount * 100 > 5 * views
                 THEN <<Indicator("engagement", "High Engagement", "success", NoPercent)>>
               ELSE IF video.likeCount * 100 < views
                 THEN <<Indicator("engagement", "Low Engagement", "warning", NoPercent)>>
               ELSE <<>>
          ELSE <<>>
  IN spam \o bot \o verified \o engagement

qualityIndicatorsOf(spamPercentage, botPercentage, verifiedPercentage, video) ==
  LET five == Frac(5, 1)
      spam == IF FracLess(spamPercentage, five)
                THEN <<Indicator("spam", "Low Spam", "success", NoPercent)>>
              ELSE IF FracLess(Frac(20, 1), spamPercentage)
                THEN <<Indicator("spam", "High Spam", "warning", NoPercent)>>
              ELSE <<>>
      bot == IF FracLess(botPercentage, five)
               THEN <<Indicator("bot", "% Bot Activity", "success", roundLabel(botPercentage))>>
               ELSE <<Indicator("bot", "% Bot Activity", "danger", roundLabel(botPercentage))>>
      verified == IF FracLess(Frac(10, 1), verifiedPercentage)
                    THEN <<Indicator("verified", "Verified Users", "success", NoPercent)>>
                    ELSE <<>>
      views == Max(1, video.viewCount)
      engagement ==
        IF video.present
          THEN IF video.likeCount * 100 > 5 * views
                 THEN <<Indicator("engagement", "High Engagement", "success", NoPercent)>>
               ELSE IF video.likeCount * 100 < views
                 THEN <<Indicator("engagement", "Low Engagement", "warning", NoPercent)>>
               ELSE <<>>
          ELSE <<>>
  IN spam \o bot \o verified \o engagement

\* likeScore of the engagement quality
qualityLikeScore(video) ==
  LET views == Max(1, video.viewCount)
  IN IF video.likeCount * 100 >= 8 * views THEN 3
     ELSE IF video.likeCount * 100 >= 5 * views THEN 2
     ELSE IF video.likeCount * 100 >= 3 * views THEN 1
     ELSE IF video.likeCount * 100 >= views THEN 0
     ELSE 0 - 1

\* commentScore of the engagement quality
qualityCommentScore(totalComments, video) ==
  \* video.viewCount / 1000 against 1, times 1000
  LET perK == Max(1000, video.viewCount)
  IN IF totalComments * 1000 >= perK THEN 3
     ELSE IF totalComments * 2000 >= perK THEN 2
     ELSE IF totalComments * 5000 >= perK THEN 1
     ELSE IF totalComments * 10000 >= perK THEN 0
     ELSE 0 - 1

qualityLabelFairFromZero(totalEngagementScore) ==
  IF totalEngagementScore >= 5 THEN "Exceptional"
  ELSE IF totalEngagementScore >= 3 THEN "Excellent"
  ELSE IF totalEngagementScore >= 1 THEN "Good"
  ELSE IF totalEngagementScore >= 0 THEN "Fair"
  ELSE IF totalEngagementScore >= 0 - 3 THEN "Poor"
  ELSE "Very Poor"

\* the label of totalEngagementScore
qualityLabel(totalEngagementScore) ==
  IF totalEngagementScore >= 5 THEN "Exceptional"
  ELSE IF totalEngagementScore >= 3 THEN "Excellent"
  ELSE IF totalEngagementScore >= 1 THEN "Good"
  ELSE IF totalEngagementScore >= 0 - 1 THEN "Fair"
  ELSE IF totalEngagementScore >= 0 - 3 THEN "Poor"
  ELSE "Very Poor"

engagementQualityOf(totalComments, video) ==
  IF ~video.present THEN "Unknown"
  ELSE qualityLabel(qualityLikeScore(video) + qualityCommentScore(totalComments, video))

\* ------------------------------------------------------------- analyzeComments
VARIABLES
  n,                  \* comments.length of the call
  pattern,            \* the kinds of the comments, see CommentAt
  video,              \* the video argument
  pc,                 \* "idle", "health", "batches", "done" or "threw"
  mode,               \* the analysis mode chosen
  commentsToAnalyze,  \* ids of the sampled comments, in order
  health,             \* what the health fetch did
  serviceHealthy,
  batchOutcome,       \* per batch: "pending" or what its fetch did
  lastDone,           \* the batch whose request completed last, 0 until then
  sent,               \* how many requests went out: health, and per batch
  sentiments,
  comments,           \* by comment id, the fields the annotation loop wrote
  tally,              \* the counters and weighted sums of the two loops
  percentages,        \* spamPercentage, botPercentage, verifiedPercentage
  result,             \* the returned InsertAnalysis
  probe,              \* one comment given to the classifier and the heuristics alone
  route               \* one request to POST /api/videos/:id/analyze

vars == <<n, pattern, video, pc, mode, commentsToAnalyze, health, serviceHealthy,
          batchOutcome, lastDone, sent, sentiments, comments, tally, percentages,
          result, probe, route>>
analysisVars ==
  <<n, pattern, video, pc, mode, commentsToAnalyze, health, serviceHealthy,
    batchOutcome, lastDone, sent, sentiments, comments, tally, percentages, result>>

NoResult ==
  [videoId |-> "", totalComments |-> 0, positiveCount |-> 0, negativeCount |-> 0,
   neutralCount |-> 0, suspiciousCount |-> 0, spamCount |-> 0, botLikeCount |-> 0,
   verifiedCount |-> 0, rating |-> Frac(0, 1), confidence |-> Frac(0, 1),
   qualityIndicators |-> <<>>, engagementQuality |-> ""]
NoTally ==
  [positiveCount |-> 0, negativeCount |-> 0, neutralCount |-> 0, suspiciousCount |-> 0,
   spamCount |-> 0, botLikeCount |-> 0, verifiedCount |-> 0,
   weightedPos |-> 0, weightedNeg |-> 0, weightedNeu |-> 0]
NoRoute ==
  [pc |-> "none", apiKey |-> FALSE, youtubeComments |-> 0, comments |-> 0,
   analyzeCalled |-> FALSE, status |-> 0, message |-> ""]
NoProbe ==
  [comment |-> Kinds[1], classified |-> FALSE, scored |-> FALSE, sentiment |-> Neutral,
   isSpam |-> FALSE, isBotLike |-> FALSE, isSuspicious |-> FALSE, trustScore |-> 0]
NoneSent == [health |-> 0, batch |-> <<>>]
NoPercentages == [spam |-> Frac(0, 1), bot |-> Frac(0, 1), verified |-> Frac(0, 1)]

neutralSentiments(pat, ids) == [i \in 1..Len(ids) |-> Neutral]

\* texts.map(text => simpleSentimentAnalysis(text))
fallbackSentiments(pat, ids) ==
  [i \in 1..Len(ids) |-> KindFacts[KindOf(pat, ids[i])].fallback]

promiseAllByArrival(results, last) ==
  IF last = 0 \/ last = Len(results) THEN results
  ELSE SubSeq(results, 1, last - 1) \o SubSeq(results, last + 1, Len(results))
         \o <<results[last]>>

\* The array Promise.all resolves with: the batches' results in the order of
\* the promises, whichever request completed last.
promiseAll(results, last) == results

RECURSIVE concatAll(_, _)
concatAll(results, b) ==
  IF b > Len(results) THEN <<>> ELSE results[b] \o concatAll(results, b + 1)

\* The try/catch around the dispatch: the concatenated batch results, or the
\* keyword fallback for every text when a batch promise rejects.
dispatchSentiments(pat, ids, batchSize, outcomes, last) ==
  LET m == Len(ids)
      calls == [b \in 1..batchCount(m, batchSize) |->
                  analyzeSentimentsWithHuggingFace(
                    batchFirst(b, batchSize), batchLen(b, m, batchSize), outcomes[b])]
  IN IF \E b \in DOMAIN calls : calls[b].threw
       THEN fallbackSentiments(pat, ids)
       ELSE concatAll(promiseAll([b \in DOMAIN calls |-> calls[b].value], last), 1)

\* The percentages of the quality indicators
percentagesOf(pat, ids) ==
  LET m == Len(ids)
      facts(i) == KindFacts[KindOf(pat, ids[i])]
  IN [spam |-> percentage(Cardinality({i \in 1..m : facts(i).isSpam}), m),
      bot |-> percentage(Cardinality({i \in 1..m : facts(i).isBotLike}), m),
      verified |-> percentage(
        Cardinality({i \in 1..m : CommentAt(pat, ids[i]).isVerified = TRUE}), m)]

totalCommentsFull(ids, fullCount) == fullCount

\* const totalComments = commentsToAnalyze.length
totalCommentsOf(ids, fullCount) == Len(ids)

\* The locals the two loops leave behind: the counts of the annotation loop
\* (each position counted with the sentiment just written there) and the
\* sums of the weighting loop (each position read from the comment object).
tallyOf(pat, ids, sents, heap) ==
  LET m == Len(ids)
      facts(i) == annotated(KindOf(pat, ids[i]), sentimentAt(sents, i))
      countOf(which) == Cardinality({i \in 1..m : category(facts(i).sentiment) = which})
  IN [positiveCount |-> countOf("positive"),
      negativeCount |-> countOf("negative"),
      neutralCount |-> countOf("neutral"),
      suspiciousCount |-> Cardinality({i \in 1..m : facts(i).isSuspicious}),
      spamCount |-> Cardinality({i \in 1..m : facts(i).isSpam}),
      botLikeCount |-> Cardinality({i \in 1..m : facts(i).isBotLike}),
      verifiedCount |-> Cardinality({i \in 1..m : CommentAt(pat, ids[i]).isVerified = TRUE}),
      weightedPos |-> weighted(pat, ids, heap, "positive", 1, m),
      weightedNeg |-> weighted(pat, ids, heap, "negative", 1, m),
      weightedNeu |-> weighted(pat, ids, heap, "neutral", 1, m)]

\* From the locals to the returned record: the rating formula and the
\* indicators.
aggregate(ids, t, pcts, fullCount, vid) ==
  LET total == t.positiveCount + t.neutralCount + t.negativeCount
      baseRating == IF total > 0
                      THEN baseRatingOf(t.weightedPos, t.weightedNeu, t.weightedNeg)
                      ELSE Frac(0, 1)
      confidence == IF total > 0
                      THEN confidenceOf(t.positiveCount, t.negativeCount, total, fullCount)
                      ELSE Frac(0, 1)
  IN [videoId |-> IF Len(ids) > 0 THEN "video" ELSE "",
      totalComments |-> totalCommentsOf(ids, fullCount),
      positiveCount |-> t.positiveCount,
      negativeCount |-> t.negativeCount,
      neutralCount |-> t.neutralCount,
      suspiciousCount |-> t.suspiciousCount,
      spamCount |-> t.spamCount,
      botLikeCount |-> t.botLikeCount,
      verifiedCount |-> t.verifiedCount,
      rating |-> finalRating(baseRating, engagementModifier(vid)),
      confidence |-> confidence,
      qualityIndicators |-> qualityIndicatorsOf(pcts.spam, pcts.bot, pcts.verified, vid),
      engagementQuality |-> engagementQualityOf(totalCommentsOf(ids, fullCount), vid)]

Init ==
  /\ n \in Sizes
  /\ pattern \in Patterns
  /\ video \in Videos
  /\ pc = "idle"
  /\ mode = BALANCED
  /\ commentsToAnalyze = <<>>
  /\ health = NoHealth
  /\ serviceHealthy = FALSE
  /\ batchOutcome = <<>>
  /\ lastDone = 0
  /\ sent = NoneSent
  /\ sentiments = <<>>
  /\ comments = <<>>
  /\ tally = NoTally
  /\ percentages = NoPercentages
  /\ result = NoResult
  /\ probe = NoProbe
  /\ route = NoRoute

\* the call up to the first await: mode choice and sampling
Call ==
  /\ pc = "idle"
  /\ mode' = chooseMode(n)
  /\ \E r \in 0..MaxShuffle : commentsToAnalyze' = sample(pattern, n, r, chooseMode(n))
  /\ sent' = [sent EXCEPT !.health = @ + 1]
  /\ pc' = "health"
  /\ UNCHANGED <<n, pattern, video, health, serviceHealthy, batchOutcome, lastDone,
                 sentiments, comments, tally, percentages, result, probe, route>>

\* the code after the sentiments are in, up to the return
Finish(sents) ==
  /\ sentiments' = padSentiments(sents, Len(commentsToAnalyze))
  /\ comments' = annotate(pattern, commentsToAnalyze, sentiments', 1, Len(commentsToAnalyze))
  /\ tally' = tallyOf(pattern, commentsToAnalyze, sentiments', comments')
  /\ percentages' = percentagesOf(pattern, commentsToAnalyze)
  /\ result' = aggregate(commentsToAnalyze, tally', percentages', n, video)
  /\ pc' = "done"

\* the health fetch settles; an unhealthy service means the fallback for all
\* texts and, with no further await, the return
HealthReply ==
  /\ pc = "health"
  /\ \E o \in HealthOutcomes :
       LET r == checkSentimentServiceHealth(o)
       IN /\ health' = o
          /\ IF r.threw
               THEN /\ pc' = "threw"
                    /\ UNCHANGED <<serviceHealthy, batchOutcome, sent, sentiments,
                                   comments, tally, percentages, result>>
             ELSE IF r.value
               THEN /\ serviceHealthy' = TRUE
                    /\ sent' = [sent EXCEPT !.batch =
                                  batchRequests(TRUE, Len(commentsToAnalyze), mode.batchSize)]
                    /\ batchOutcome' =
                         [b \in 1..batchCount(Len(commentsToAnalyze), mode.batchSize)
                            |-> "pending"]
                    /\ pc' = "batches"
                    /\ UNCHANGED <<sentiments, comments, tally, percentages, result>>
             ELSE /\ serviceHealthy' = FALSE
                  /\ sent' = [sent EXCEPT !.batch =
                                batchRequests(FALSE, Len(commentsToAnalyze), mode.batchSize)]
                  /\ Finish(fallbackSentiments(pattern, commentsToAnalyze))
                  /\ UNCHANGED batchOutcome
  /\ UNCHANGED <<n, pattern, video, mode, commentsToAnalyze, lastDone, probe, route>>

faults == Cardinality({b \in DOMAIN batchOutcome : batchOutcome[b] \in BatchFaults})

\* the fetch of one batch settles, in any order
BatchReply ==
  /\ pc = "batches"
  /\ \E b \in DOMAIN batchOutcome : \E o \in BatchOutcomes :
       /\ batchOutcome[b] = "pending"
       /\ o \in BatchFaults =>
            faults < MaxFaults /\ Len(batchOutcome) <= MaxFaultyDispatch
       /\ batchOutcome' = [batchOutcome EXCEPT ![b] = o]
       /\ lastDone' = IF \A c \in DOMAIN batchOutcome : c = b \/ batchOutcome[c] # "pending"
                        THEN b ELSE 0
  /\ UNCHANGED <<n, pattern, video, pc, mode, commentsToAnalyze, health, serviceHealthy,
                 sent, sentiments, comments, tally, percentages, result, probe, route>>

anySettled(outcomes) == \E b \in DOMAIN outcomes : outcomes[b] # "pending"

\* await Promise.all(batchPromises) goes on once every promise has settled
allSettled(outcomes) == \A b \in DOMAIN outcomes : outcomes[b] # "pending"

\* Promise.all settles: combine, annotate, aggregate, return
Join ==
  /\ pc = "batches"
  /\ allSettled(batchOutcome)
  /\ Finish(dispatchSentiments(pattern, commentsToAnalyze, mode.batchSize,
                               batchOutcome, lastDone))
  /\ UNCHANGED <<n, pattern, video, mode, commentsToAnalyze, health, serviceHealthy,
                 batchOutcome, lastDone, sent, probe, route>>

Next == Call \/ HealthReply \/ BatchReply \/ Join

Spec == Init /\ [][Next]_vars

\* Every fetch carries an AbortSignal.timeout, so each await settles and the
\* continuation runs: weak fairness of every step.  Liveness is checked on
\* the calls of up to two batches.
FairInit == Init /\ n <= FAST.batchSize + Spread
FairSpec == FairInit /\ [][Next]_vars /\ WF_vars(Next)

\* ------------------------------------------------------------- one comment
\* simpleSentimentAnalysis, detectSpam, detectBotBehavior and
\* calculateTrustScore applied to a single comment, over texts that hold
\* repeated keywords, upper case, numbers, questions, punctuation runs, spam,
\* an emoji and lengths on both sides of 10, 20, 50 and 100.
ProbeTexts == {
  "",
  "ok",
  "good good bad",
  "bad bad bad great",
  "GREAT VIDEO!!!",
  "I dislike it",
  "is this 10 minutes long?",
  "WOW {}",
  "please subscribe",
  "nice one {} thanks for the upload, see you next time around",
  "we watched the whole thing last week and my kids want more of it",
  "this is a really long comment about the video that goes on and on without saying anything in particular at all" }
ProbeLikes == {0, 6, 25}
ProbeAuthors == {"Alice", "User123"}
ProbeComments ==
  [textOriginal : ProbeTexts, likeCount : ProbeLikes, isVerified : BOOLEAN,
   authorDisplayName : ProbeAuthors]

\* no analysis under way
AnalysisIdle ==
  /\ n = 0
  /\ pattern = <<1>>
  /\ video = NoVideo
  /\ pc = "idle"
  /\ mode = BALANCED
  /\ commentsToAnalyze = <<>>
  /\ health = NoHealth
  /\ serviceHealthy = FALSE
  /\ batchOutcome = <<>>
  /\ lastDone = 0
  /\ sent = NoneSent
  /\ sentiments = <<>>
  /\ comments = <<>>
  /\ tally = NoTally
  /\ percentages = NoPercentages
  /\ result = NoResult

ProbeInit ==
  /\ AnalysisIdle
  /\ route = NoRoute
  /\ \E c \in ProbeComments : probe = [NoProbe EXCEPT !.comment = c]

\* simpleSentimentAnalysis(text)
ClassifyText ==
  /\ ~probe.classified
  /\ probe' = [probe EXCEPT !.classified = TRUE,
                            !.sentiment = simpleSentimentAnalysis(probe.comment.textOriginal)]
  /\ UNCHANGED <<analysisVars, route>>

\* the heuristics of the annotation loop on one comment
ScoreComment ==
  /\ ~probe.scored
  /\ LET spam == detectSpam(probe.comment)
         bot == detectBotBehavior(probe.comment)
     IN probe' = [probe EXCEPT !.scored = TRUE, !.isSpam = spam, !.isBotLike = bot,
                               !.isSuspicious = spam \/ bot,
                               !.trustScore = calculateTrustScore(probe.comment, spam, bot,
                                                                  spam \/ bot)]
  /\ UNCHANGED <<analysisVars, route>>

ProbeNext == ClassifyText \/ ScoreComment

ProbeSpec == ProbeInit /\ [][ProbeNext]_vars

\* ------------------------------------------------------------- POST /api/videos/:id/analyze
\* What the comment source answers to one commentThreads request: a page of
\* some comments (top-level comments and replies together) with or without
\* a nextPageToken, 403, or another error status.
MaxItems == 4
MaxPages == 2
PageOutcomes ==
  [status : {"ok"}, items : 0..MaxItems, nextPageToken : BOOLEAN]
    \cup [status : {"forbidden", "error"}, items : {0}, nextPageToken : {FALSE}]
Upstream == UNION {[1..len -> PageOutcomes] : len \in 1..MaxPages}

\* the while loop of getVideoComments from page p on, allComments.length
\* being count; a page past the answers at hand comes back empty
RECURSIVE getPages(_, _, _, _)
getPages(pages, p, maxResults, count) ==
  IF count >= maxResults \/ p > Len(pages) THEN Return(count)
  ELSE IF pages[p].status = "forbidden" THEN Return(count)
  ELSE IF pages[p].status # "ok" THEN Throw
  ELSE IF pages[p].items = 0 THEN Return(count)
  ELSE IF ~pages[p].nextPageToken THEN Return(Min(maxResults, count + pages[p].items))
  ELSE getPages(pages, p + 1, maxResults, Min(maxResults, count + pages[p].items))

\* YouTubeService.getVideoComments: the number of comments returned
getVideoComments(pages, maxResults, apiKey) ==
  IF ~apiKey THEN Throw ELSE getPages(pages, 1, maxResults, 0)

RouteInit ==
  /\ AnalysisIdle
  /\ probe = NoProbe
  /\ \E key \in BOOLEAN : route = [NoRoute EXCEPT !.pc = "start", !.apiKey = key]

Respond(status, message) ==
  route' = [route EXCEPT !.pc = "responded", !.status = status, !.message = message]

\* getVideoById: a video, null, or a throw
GetVideo ==
  /\ route.pc = "start"
  /\ \/ route' = [route EXCEPT !.pc = "first"]
     \/ Respond(404, "Video not found")
     \/ Respond(400, "error")
  /\ UNCHANGED <<analysisVars, probe>>

\* const youtubeComments = await getVideoComments(videoId, 500, key), and
\* the check of its length
FirstFetch ==
  /\ route.pc = "first"
  /\ \E pages \in Upstream :
       LET r == getVideoComments(pages, 500, route.apiKey)
       IN IF r.threw THEN Respond(400, "error")
          ELSE IF r.value = 0 THEN Respond(400, "No comments available for analysis")
          ELSE route' = [route EXCEPT !.pc = "second", !.youtubeComments = r.value]
  /\ UNCHANGED <<analysisVars, probe>>

\* const comments = (await getVideoComments(videoId, 500, key)).map(...),
\* and the call of analyzeComments(comments, safeVideo)
SecondFetch ==
  /\ route.pc = "second"
  /\ \E pages \in Upstream :
       LET r == getVideoComments(pages, 500, route.apiKey)
       IN IF r.threw THEN Respond(400, "error")
          ELSE route' = [route EXCEPT !.pc = "analyzing", !.comments = r.value,
                                      !.analyzeCalled = TRUE]
  /\ UNCHANGED <<analysisVars, probe>>

\* res.json(analysisResult)
SendResult ==
  /\ route.pc = "analyzing"
  /\ Respond(200, "")
  /\ UNCHANGED <<analysisVars, probe>>

RouteNext == GetVideo \/ FirstFetch \/ SecondFetch \/ SendResult

RouteSpec == RouteInit /\ [][RouteNext]_vars

\* ------------------------------------------------------------- properties
Done == pc = "done"
IsHundredths(p) == p[2] > 0 /\ (p[1] * 100) % p[2] = 0
FailedOutcomes == {"reject", "timeout", "http_error", "bad_json", "no_results"}
Batches == DOMAIN batchOutcome
SampledKind(i) == KindOf(pattern, commentsToAnalyze[i])

\* C1: whatever the health fetch and the batch fetches do, analyzeComments
\* never throws and eventually returns its result.
C1_AlwaysReturns == [](pc # "threw") /\ <>(pc = "done")

C1_Witness ==
  /\ Done
  /\ serviceHealthy
  /\ \E b \in Batches : batchOutcome[b] \in FailedOutcomes
  /\ result.totalComments = Len(commentsToAnalyze)

\* C2: the returned rating lies in 0..5 and is a whole number of hundredths.
C2_RatingRange ==
  Done => /\ FracLeq(Frac(0, 1), result.rating)
          /\ FracLeq(result.rating, Frac(5, 1))
          /\ IsHundredths(result.rating)

\* an all-positive sample of a video whose modifier is above 1: clamped to 5
C2_Witness ==
  /\ Done
  /\ video.present /\ FracLess(Frac(1, 1), engagementModifier(video))
  /\ result.positiveCount = result.totalComments /\ result.totalComments > 0
  /\ FracEq(result.rating, Frac(5, 1))

\* C3: the three sentiment counts add up to totalComments, and the
\* suspicious, spam, bot-like and verified counts lie in 0..totalComments.
C3_CountsConsistent ==
  Done => /\ result.positiveCount + result.negativeCount + result.neutralCount
             = result.totalComments
          /\ \A c \in {result.suspiciousCount, result.spamCount,
                       result.botLikeCount, result.verifiedCount} :
               c \in 0..result.totalComments

C3_Witness ==
  /\ Done
  /\ result.positiveCount > 0 /\ result.negativeCount > 0 /\ result.neutralCount > 0
  /\ result.spamCount > 0 /\ result.verifiedCount > 0
  /\ result.totalComments < n

\* C4: totalComments is the smaller of the number of comments supplied and
\* the mode's maxComments.
C4_TotalIsMin ==
  Done => result.totalComments = Min(n, chooseMode(n).maxComments)

\* C5: with the classifier reported unhealthy, every sampled comment carries
\* the keyword fallback's label and score for its own text, a score of 0.2,
\* 0.5 or 0.8.
C5_UnhealthyUsesFallback ==
  (Done /\ ~serviceHealthy) =>
    /\ Len(sentiments) = Len(commentsToAnalyze)
    /\ \A i \in 1..Len(commentsToAnalyze) :
         /\ sentiments[i] = KindFacts[SampledKind(i)].fallback
         /\ sentiments[i].score \in {20, 50, 80}

C5_Witness ==
  /\ Done /\ ~serviceHealthy
  /\ health.fetch = "resolve" /\ health.ok
  /\ \E i \in 1..Len(sentiments) : sentiments[i].score = 80
  /\ \E i \in 1..Len(sentiments) : sentiments[i].score = 20

\* C6: with the classifier healthy and a batch request failing, the
\* sentiments of all sampled comments are the keyword fallback's.
C6_AllOrNothingFallback ==
  (Done /\ serviceHealthy /\ \E b \in Batches : batchOutcome[b] \in {"reject", "timeout", "http_error"})
    => sentiments = fallbackSentiments(pattern, commentsToAnalyze)

\* C7: whichever batch request completes last, the comment at position i
\* carries the result its own batch returned at its own place (every batch
\* answering with as many results as texts).
C7_MergedInSampleOrder ==
  (Done /\ serviceHealthy /\ \A b \in Batches : batchOutcome[b] \notin {"short", "long"}) =>
    LET m == Len(commentsToAnalyze)
    IN /\ Len(sentiments) = m
       /\ \A b \in Batches :
            LET first == batchFirst(b, mode.batchSize)
                len == batchLen(b, m, mode.batchSize)
                returned == analyzeSentimentsWithHuggingFace(first, len, batchOutcome[b]).value
            IN \A place \in 1..len : sentiments[first + place - 1] = returned[place]

\* a batch other than the last one completed last
C7_Witness ==
  /\ Done /\ serviceHealthy
  /\ Len(batchOutcome) >= 2
  /\ lastDone \in 1..(Len(batchOutcome) - 1)
  /\ \A b \in Batches : batchOutcome[b] = "full"

\* C8: with responses that are short or long, a comment carries the result
\* returned at its own place in its own batch, and neutral/0.5 exactly when
\* that place is missing.
C8_MergedByIndex ==
  (Done /\ serviceHealthy /\ \A b \in Batches : batchOutcome[b] \in {"full", "short", "long"}) =>
    LET m == Len(commentsToAnalyze)
    IN \A b \in Batches :
         LET first == batchFirst(b, mode.batchSize)
             len == batchLen(b, m, mode.batchSize)
             returned == responseResults(first, len, batchOutcome[b])
         IN \A place \in 1..len :
              sentiments[first + place - 1] =
                IF place <= Len(returned) THEN mapLabel(returned[place]) ELSE Neutral

\* C9: zero comments give totalComments 0, rating 0 and confidence 0, with
\* no exception and no division by zero.
C9_EmptyInput ==
  (n = 0 /\ pc \in {"done", "threw"}) =>
    /\ pc = "done"
    /\ result.totalComments = 0
    /\ FracEq(result.rating, Frac(0, 1))
    /\ FracEq(result.confidence, Frac(0, 1))
    /\ ~IsNaN(percentages.spam) /\ ~IsNaN(percentages.bot) /\ ~IsNaN(percentages.verified)

\* C10: the mode is Fast (150, 30, top-engagement) iff fewer than 200
\* comments are supplied, Comprehensive (500, 75, stratified) iff more than
\* 1000, and Balanced (300, 50, stratified) otherwise.
C10_ModeByCount ==
  pc # "idle" =>
    /\ (n < 200) <=> mode = [maxComments |-> 150, batchSize |-> 30, strategy |-> "top_engagement"]
    /\ (n > 1000) <=> mode = [maxComments |-> 500, batchSize |-> 75, strategy |-> "stratified"]
    /\ (n >= 200 /\ n <= 1000)
         <=> mode = [maxComments |-> 300, batchSize |-> 50, strategy |-> "stratified"]

C10_Witness ==
  /\ Done
  /\ n = 1000
  /\ mode.maxComments = 300 /\ mode.batchSize = 50
  /\ Len(batchOutcome) = 6

\* the set of comments in the sampled list
Sampled == {commentsToAnalyze[i] : i \in 1..Len(commentsToAnalyze)}

\* C11: with fewer comments than the mode's maxComments, the sampled list
\* holds every supplied comment exactly once.
C11_AllOnceWhenFewer ==
  (pc = "health" /\ n < mode.maxComments) =>
    /\ Len(commentsToAnalyze) = n
    /\ Sampled = 1..n

\* C12: in a stratified mode no comment is in the sampled list twice.
C12_StratifiedNoRepeat ==
  (pc = "health" /\ mode.strategy = "stratified" /\ n >= mode.maxComments) =>
    Cardinality(Sampled) = Len(commentsToAnalyze)

\* C13: the returned confidence lies in 0..1 and is a whole number of
\* hundredths.
C13_ConfidenceRange ==
  Done => /\ FracLeq(Frac(0, 1), result.confidence)
          /\ FracLeq(result.confidence, Frac(1, 1))
          /\ IsHundredths(result.confidence)

DerivedFields ==
  {"sentiment", "sentimentScore", "isSpam", "isBotLike", "isSuspicious", "trustScore"}
SpamText == "SUBSCRIBE TO MY CHANNEL NOW"

\* C14: on every classification path each sampled comment has isSpam and
\* isBotLike as the detectors give them for its own text and author, and
\* isSuspicious as their disjunction, whatever sentiment it was given; the
\* text "SUBSCRIBE TO MY CHANNEL NOW" is always spam and suspicious.
C14_HeuristicsAlwaysRun ==
  Done =>
    \A k \in 1..Len(Kinds) :
      LET spam == detectSpam(Kinds[k])
          bot == detectBotBehavior(Kinds[k])
      IN \A id \in Sampled :
           KindOf(pattern, id) = k =>
             /\ comments[id].isSpam = spam
             /\ comments[id].isBotLike = bot
             /\ comments[id].isSuspicious = (spam \/ bot)
             /\ Kinds[k].textOriginal = SpamText =>
                  comments[id].isSpam /\ comments[id].isSuspicious

\* the classifier called the spam text positive
C14_Witness ==
  /\ Done /\ serviceHealthy
  /\ \E id \in Sampled :
       /\ CommentAt(pattern, id).textOriginal = SpamText
       /\ comments[id].sentiment = "positive"
       /\ comments[id].isSpam /\ comments[id].isSuspicious
  /\ \E b \in Batches : batchOutcome[b] \in FailedOutcomes

\* C15: in every state a comment has either none or all of the derived
\* fields; none has any before the analysis returns, and afterwards the
\* sampled comments have them all and the others none.
C15_DerivedAllOrNone ==
  /\ \A id \in DOMAIN comments : DOMAIN comments[id] = DerivedFields
  /\ ~Done => DOMAIN comments = {}
  /\ Done => DOMAIN comments = Sampled

C15_Witness ==
  /\ Done
  /\ Sampled # {}
  /\ \E id \in 1..n : id \notin Sampled /\ id \notin DOMAIN comments
  /\ \A id \in Sampled : DOMAIN comments[id] = DerivedFields

\* equality of two fractions by their lowest terms
RECURSIVE GCD(_, _)
GCD(a, b) == IF b = 0 THEN a ELSE GCD(b, a % b)
Reduce(p) ==
  LET g == GCD(Abs(p[1]), Abs(p[2]))
  IN IF g = 0 THEN p ELSE Frac(p[1] \div g, p[2] \div g)
SameNumber(p, q) == ~IsNaN(p) /\ ~IsNaN(q) /\ Reduce(p) = Reduce(q)

WeightOfCategory(which) ==
  LET m == Len(commentsToAnalyze)
      term(k) ==
        (10 + Kinds[k].likeCount + (IF Kinds[k].isVerified THEN 5 ELSE 0))
          * Cardinality({i \in 1..m :
                /\ KindOf(pattern, commentsToAnalyze[i]) = k
                /\ category(comments[commentsToAnalyze[i]].sentiment) = which})
      S[k \in 0..Len(Kinds)] == IF k = 0 THEN 0 ELSE S[k - 1] + term(k)
  IN S[Len(Kinds)]

\* C17: for a non-empty sample analysed without video stats (modifier 1),
\* the rating is (weightedPos + 0.8 weightedNeu - 0.2 weightedNeg) /
\* totalWeight * 5, clamped to 0..5 and rounded to hundredths, with weight
\* 1 + likeCount/10 (+ 0.5 if verified); all positive gives 5, all negative 0.
C17_BaseRatingFormula ==
  (Done /\ result.totalComments > 0 /\ ~video.present) =>
    \A wp \in {WeightOfCategory("positive")} :
    \A wneu \in {WeightOfCategory("neutral")} :
    \A wneg \in {WeightOfCategory("negative")} :
    \A raw \in {Frac((wp * 10 + wneu * 8 - wneg * 2) * 5, (wp + wneu + wneg) * 10)} :
    \A clamped \in {IF raw[1] < 0 THEN Frac(0, 1)
                     ELSE IF raw[1] > 5 * raw[2] THEN Frac(5, 1) ELSE raw} :
      /\ SameNumber(result.rating,
                    Frac((200 * clamped[1] + clamped[2]) \div (2 * clamped[2]), 100))
      /\ result.positiveCount = result.totalComments =>
           SameNumber(result.rating, Frac(5, 1))
      /\ result.negativeCount = result.totalComments =>
           SameNumber(result.rating, Frac(0, 1))

\* a mixed sample with liked and verified comments
C17_Witness ==
  /\ Done /\ ~video.present
  /\ result.positiveCount > 0 /\ result.negativeCount > 0 /\ result.neutralCount > 0
  /\ result.verifiedCount > 0
  /\ FracLess(Frac(0, 1), result.rating) /\ FracLess(result.rating, Frac(5, 1))
  /\ ~IsHundredths(Frac(tally.weightedPos * 10 + tally.weightedNeu * 8
                           - tally.weightedNeg * 2,
                         2 * (tally.weightedPos + tally.weightedNeu + tally.weightedNeg)))

\* clamp to 0..5 and round to hundredths, written out on a fraction
ClampRound(raw) ==
  LET clamped == IF raw[1] < 0 THEN Frac(0, 1)
                 ELSE IF raw[1] > 5 * raw[2] THEN Frac(5, 1) ELSE raw
  IN Frac((200 * clamped[1] + clamped[2]) \div (2 * clamped[2]), 100)

\* baseRating as the code derives it from the sums of the weighting loop
BaseRating ==
  IF result.totalComments > 0
    THEN baseRatingOf(tally.weightedPos, tally.weightedNeu, tally.weightedNeg)
    ELSE Frac(0, 1)

\* C18: the rating is baseRating * engagementModifier clamped to 0..5 and
\* rounded to hundredths; the modifier is 1 without a video, else the mean
\* of likeScore (1.25/1.15/1.05/1 for likes per view >= 0.05/0.02/0.01) and
\* commentScore (1.2/1.1/1.02/1 for comments per view >= 0.005/0.001/0.0005),
\* views counted as at least 1; it is 1.175 for 1,000,000 views, 80,000
\* likes and 1,200 comments, and the rating is never NaN.
C18_FinalRatingFormula ==
  Done =>
    \A views \in {IF video.viewCount > 1 THEN video.viewCount ELSE 1} :
    \A likeRatio \in {Frac(video.likeCount, views)} :
    \A commentRatio \in {Frac(video.commentCount, views)} :
    \A likeScore \in {IF FracLeq(Frac(5, 100), likeRatio) THEN 125
                       ELSE IF FracLeq(Frac(2, 100), likeRatio) THEN 115
                       ELSE IF FracLeq(Frac(1, 100), likeRatio) THEN 105 ELSE 100} :
    \A commentScore \in {IF FracLeq(Frac(5, 1000), commentRatio) THEN 120
                          ELSE IF FracLeq(Frac(1, 1000), commentRatio) THEN 110
                          ELSE IF FracLeq(Frac(5, 10000), commentRatio) THEN 102 ELSE 100} :
    \A modifier \in {IF video.present THEN Frac(likeScore + commentScore, 200)
                      ELSE Frac(1, 1)} :
      /\ SameNumber(result.rating, ClampRound(FracMul(BaseRating, modifier)))
      /\ ~IsNaN(result.rating)
      /\ (video.present /\ video.viewCount = 1000000 /\ video.likeCount = 80000
            /\ video.commentCount = 1200) => SameNumber(modifier, Frac(1175, 1000))

\* the modifier of the 1.175 video raised a rating that stays below 5
C18_Witness ==
  /\ Done
  /\ video.present /\ video.viewCount = 1000000
  /\ FracLess(BaseRating, result.rating)
  /\ FracLess(result.rating, Frac(5, 1))

\* C19: for a non-empty sample the confidence is (sampled / supplied) *
\* (1 - |positive - negative| / sampled) * (sampled / 100) clamped to 0..1,
\* the coverage sampled / supplied being at most 1; it is 0 for an empty
\* sample.
C19_ConfidenceFormula ==
  Done =>
    \A sampledCount \in {result.totalComments} :
    \A d \in {IF result.positiveCount >= result.negativeCount
                 THEN result.positiveCount - result.negativeCount
                 ELSE result.negativeCount - result.positiveCount} :
      IF sampledCount = 0
        THEN SameNumber(result.confidence, Frac(0, 1))
        ELSE /\ sampledCount <= n
             /\ \A raw \in {Frac(sampledCount * (sampledCount - d), 100 * n)} :
                  SameNumber(result.confidence,
                             IF raw[1] > raw[2] THEN Frac(1, 1) ELSE raw)

\* how many indicators of a type (and colour) the result holds
IndicatorsOfType(type) ==
  Cardinality({i \in DOMAIN result.qualityIndicators :
                 result.qualityIndicators[i].type = type})
IndicatorsOf(type, color) ==
  Cardinality({i \in DOMAIN result.qualityIndicators :
                 /\ result.qualityIndicators[i].type = type
                 /\ result.qualityIndicators[i].color = color})

\* C20: at most one spam, one verified and one engagement indicator; for a
\* non-empty sample spam is success iff spam% < 5, warning iff spam% > 20,
\* verified is emitted iff verified% > 10 (neither is emitted for an empty
\* sample, whose percentages are no number); engagement is emitted only with
\* video stats, success iff likes per view > 0.05, warning iff < 0.01.
C20_IndicatorRules ==
  Done =>
    /\ \A type \in {"spam", "verified", "engagement"} : IndicatorsOfType(type) <= 1
    /\ IndicatorsOfType("spam") = IndicatorsOf("spam", "success") + IndicatorsOf("spam", "warning")
    /\ result.totalComments > 0 =>
         /\ IndicatorsOf("spam", "success") = 1
               <=> result.spamCount * 100 < 5 * result.totalComments
         /\ IndicatorsOf("spam", "warning") = 1
               <=> result.spamCount * 100 > 20 * result.totalComments
         /\ IndicatorsOfType("verified") = 1
               <=> result.verifiedCount * 100 > 10 * result.totalComments
    /\ result.totalComments = 0 =>
         IndicatorsOfType("spam") = 0 /\ IndicatorsOfType("verified") = 0
    /\ ~video.present => IndicatorsOfType("engagement") = 0
    /\ video.present =>
         \A likeRatio \in {Frac(video.likeCount,
                                 IF video.viewCount > 1 THEN video.viewCount ELSE 1)} :
           /\ IndicatorsOfType("engagement")
                = IndicatorsOf("engagement", "success") + IndicatorsOf("engagement", "warning")
           /\ IndicatorsOf("engagement", "success") = 1 <=> FracLess(Frac(5, 100), likeRatio)
           /\ IndicatorsOf("engagement", "warning") = 1 <=> FracLess(likeRatio, Frac(1, 100))

\* a sample whose spam share lies between the two thresholds: no spam
\* indicator, and a video between the two engagement thresholds
C20_Witness ==
  /\ Done
  /\ result.spamCount * 100 >= 5 * result.totalComments
  /\ result.spamCount * 100 <= 20 * result.totalComments
  /\ result.spamCount > 0
  /\ IndicatorsOfType("spam") = 0
  /\ video.present /\ IndicatorsOfType("engagement") = 0

\* the bot indicators of the result
BotIndicators ==
  {i \in DOMAIN result.qualityIndicators : result.qualityIndicators[i].type = "bot"}

\* C21: every result holds exactly one bot indicator, success when the
\* bot-like share of the sample is below 5 percent and danger otherwise, and
\* the percentage of its label is an integer in 0..100, the share rounded.
C21_BotIndicator ==
  Done =>
    /\ Cardinality(BotIndicators) = 1
    /\ \A i \in BotIndicators :
         LET bot == result.qualityIndicators[i]
         IN /\ ~bot.percent.nan
            /\ bot.percent.value \in 0..100
            /\ result.totalComments > 0 =>
                 /\ bot.color = IF result.botLikeCount * 100 < 5 * result.totalComments
                                  THEN "success" ELSE "danger"
                 /\ bot.percent.value =
                      (200 * result.botLikeCount + result.totalComments)
                        \div (2 * result.totalComments)

\* C22: the engagementQuality label is the one the video's own stats give
\* (likes per view, and the video's comment count per 1000 views), whatever
\* comments were sampled, and it is "Unknown" iff no video was supplied.
C22_EngagementQualityFromVideo ==
  Done =>
    /\ result.engagementQuality = engagementQualityOf(video.commentCount, video)
    /\ result.engagementQuality = "Unknown" <=> ~video.present

\* the health fetch has settled
HealthChecked == pc \in {"batches", "done", "threw"}

\* C23: once the health check has settled the service counts as healthy
\* exactly when the fetch resolved with a success status and a body that
\* parses and reports status "healthy" and model_loaded true; a rejected or
\* timed-out fetch, a non-success status or an unparsable body make it
\* unhealthy, and the analysis does not throw.
C23_HealthyOnlyIfAll ==
  HealthChecked =>
    /\ pc # "threw"
    /\ serviceHealthy <=>
         /\ health.fetch = "resolve"
         /\ health.ok
         /\ health.body = "json"
         /\ health.status = "healthy"
         /\ health.model_loaded = TRUE

\* a success response that reports "healthy" without a loaded model, and the
\* analysis went on with the fallback
C23_Witness ==
  /\ Done
  /\ health.fetch = "resolve" /\ health.ok /\ health.body = "json"
  /\ health.status = "healthy" /\ health.model_loaded = FALSE
  /\ ~serviceHealthy
  /\ Len(batchOutcome) = 0
  /\ result.totalComments > 0

\* C24: one health request per analysis, sent before any batch request; an
\* unhealthy service gets no batch request; a healthy one gets one request
\* per batch of the sampled texts, and none is sent again whatever the
\* requests' outcomes.
C24_RequestsOnce ==
  /\ pc = "idle" => sent = NoneSent
  /\ pc # "idle" => sent.health = 1
  /\ pc = "health" => sent.batch = <<>>
  /\ (HealthChecked /\ ~serviceHealthy) => sent.batch = <<>>
  /\ (HealthChecked /\ serviceHealthy) =>
       /\ DOMAIN sent.batch = 1..batchCount(Len(commentsToAnalyze), mode.batchSize)
       /\ \A b \in DOMAIN sent.batch : sent.batch[b] = 1

\* an analysis that returned after one of its several batch requests failed
C24_Witness ==
  /\ Done
  /\ serviceHealthy
  /\ Len(sent.batch) >= 2
  /\ \E b \in Batches : batchOutcome[b] \in {"reject", "timeout", "http_error"}
  /\ \A b \in Batches : sent.batch[b] = 1

\* C25: while the batch requests are out, every one of them has been sent,
\* and as long as one of them has not completed no comment is annotated and
\* no count, rating or confidence exists; the result of a healthy analysis
\* comes after the completion of all its batch requests.
C25_ForkJoin ==
  /\ pc = "batches" =>
       /\ \A b \in 1..batchCount(Len(commentsToAnalyze), mode.batchSize) :
            b \in DOMAIN sent.batch /\ sent.batch[b] = 1
       /\ comments = <<>> /\ sentiments = <<>>
       /\ tally = NoTally /\ result = NoResult
  /\ (\E b \in Batches : batchOutcome[b] = "pending") =>
       /\ pc = "batches"
       /\ comments = <<>> /\ tally = NoTally /\ result = NoResult
  /\ (Done /\ serviceHealthy) =>
       /\ Batches = 1..batchCount(Len(commentsToAnalyze), mode.batchSize)
       /\ \A b \in Batches : batchOutcome[b] # "pending"

\* a result computed after several batches completed out of order, the first
\* one last and one of them failing
C25_Witness ==
  /\ Done
  /\ serviceHealthy
  /\ Len(batchOutcome) >= 3
  /\ lastDone = 1
  /\ \E b \in Batches : batchOutcome[b] \in FailedOutcomes
  /\ DOMAIN comments # {}
  /\ result.totalComments = Len(commentsToAnalyze)

\* how often the word occurs in the text, overlapping or not
occurrences(text, w) ==
  Cardinality({i \in 1..(Len(text) - Len(w) + 1) : SubSeq(text, i, i + Len(w) - 1) = w})

RECURSIVE SumOccurrences(_, _, _)
SumOccurrences(text, words, j) ==
  IF j > Len(words) THEN 0
  ELSE occurrences(text, words[j]) + SumOccurrences(text, words, j + 1)

\* how many of the words occur in the text at all
RECURSIVE WordsPresent(_, _, _)
WordsPresent(text, words, j) ==
  IF j > Len(words) THEN 0
  ELSE (IF occurrences(text, words[j]) >= 1 THEN 1 ELSE 0) + WordsPresent(text, words, j + 1)

LabelOf(positive, negative) ==
  IF positive > negative THEN [sentiment |-> "positive", score |-> 80]
  ELSE IF negative > positive THEN [sentiment |-> "negative", score |-> 20]
  ELSE [sentiment |-> "neutral", score |-> 50]

\* C26 as stated: the fallback compares the numbers of occurrences of the
\* positive and of the negative keywords in the lower-cased text and answers
\* positive/0.8, negative/0.2 or neutral/0.5.
C26_ByOccurrences ==
  probe.classified =>
    \A lower \in {toLowerCase(probe.comment.textOriginal)} :
      probe.sentiment = LabelOf(SumOccurrences(lower, positiveWords, 1),
                                SumOccurrences(lower, negativeWords, 1))

\* C26: the fallback compares how many of the positive keywords and how many
\* of the negative keywords occur in the lower-cased text, each keyword
\* counted once however often it occurs, and answers positive/0.8,
\* negative/0.2 or neutral/0.5; the answer is a function of the text.
C26_ByKeywordsPresent ==
  probe.classified =>
    \A lower \in {toLowerCase(probe.comment.textOriginal)} :
      probe.sentiment = LabelOf(WordsPresent(lower, positiveWords, 1),
                                WordsPresent(lower, negativeWords, 1))

\* a text that repeats a keyword: one positive and one negative keyword are
\* present, so the answer is neutral
C26_Witness ==
  /\ probe.classified
  /\ probe.comment.textOriginal = "good good bad"
  /\ probe.sentiment = Neutral

\* the adjustments to the trust score of the scored comment, in halves:
\* +3 verified; +2 above 20 likes, else +1 above 5; +1.5 above 100
\* characters, else +1 above 50; +1 number or time unit; +1 first person;
\* +0.5 question mark; -5 spam; -4 bot-like; -3 suspicious; -2 no likes and
\* under 20 characters; -1 all capitals; -0.5 punctuation run; -0.5 emoji in
\* a text under 50 characters
ListedAdjustments ==
  LET c == probe.comment
      length == Len(c.textOriginal)
  IN (IF c.isVerified THEN 6 ELSE 0)
     + (IF c.likeCount > 20 THEN 4 ELSE IF c.likeCount > 5 THEN 2 ELSE 0)
     + (IF length > 100 THEN 3 ELSE IF length > 50 THEN 2 ELSE 0)
     + (IF hasSpecificDetails(c.textOriginal) THEN 2 ELSE 0)
     + (IF hasPersonalExperience(c.textOriginal) THEN 2 ELSE 0)
     + (IF hasQuestions(c.textOriginal) THEN 1 ELSE 0)
     - (IF probe.isSpam THEN 10 ELSE 0)
     - (IF probe.isBotLike THEN 8 ELSE 0)
     - (IF probe.isSuspicious THEN 6 ELSE 0)
     - (IF c.likeCount = 0 /\ length < 20 THEN 4 ELSE 0)
     - (IF hasAllCaps(c.textOriginal) THEN 2 ELSE 0)
     - (IF hasExcessivePunctuation(c.textOriginal) THEN 1 ELSE 0)
     - (IF hasEmojis(c.textOriginal) /\ length < 50 THEN 1 ELSE 0)

\* +1 when the likes exceed twice the text's length in tens of characters
\* (at least one ten)
LikeRatioAdjustment ==
  LET c == probe.comment
  IN IF 10 * c.likeCount > 2 * Max(10, Len(c.textOriginal)) THEN 2 ELSE 0

ClampTrust(score) == IF score < 0 THEN 0 ELSE IF score > 20 THEN 20 ELSE score

\* C27 as stated: the trust score is 5 plus the listed adjustments and no
\* other term, clamped to 0..10.
C27_ListedTermsOnly ==
  probe.scored => probe.trustScore = ClampTrust(10 + ListedAdjustments)

\* C27: the trust score is 5 plus the listed adjustments plus 1 when
\* likeCount / max(1, length / 10) exceeds 2, clamped to 0..10.
C27_ListedTermsAndLikeRatio ==
  probe.scored =>
    probe.trustScore = ClampTrust(10 + ListedAdjustments + LikeRatioAdjustment)

\* 6 likes on a 13-character text: 5 + 1 for the likes + 1 for the like
\* ratio, nothing clamped
C27_Witness ==
  /\ probe.scored
  /\ probe.comment.textOriginal = "good good bad"
  /\ probe.comment.likeCount = 6
  /\ ~probe.comment.isVerified
  /\ ~probe.isSuspicious
  /\ LikeRatioAdjustment = 2
  /\ probe.trustScore = 14

\* the analysis of the same comments under other author names (and, for two
\* kinds, a text of the same length and keywords): same sample, same
\* sentiments, the heuristics run anew
OtherAuthorsResult ==
  LET twin == otherAuthors(pattern)
      m == Len(commentsToAnalyze)
  IN CHOOSE res \in
       {aggregate(commentsToAnalyze,
                  tallyOf(twin, commentsToAnalyze, sentiments,
                          annotate(twin, commentsToAnalyze, sentiments, 1, m)),
                  percentagesOf(twin, commentsToAnalyze), n, video)} : TRUE

\* the two lists are one to the sampler and to the classifiers
SameToSampler ==
  \A k \in 1..(Len(Kinds) \div 2) :
    LET other == Kinds[k + Len(Kinds) \div 2]
    IN /\ sortScore(other) = sortScore(Kinds[k])
       /\ other.likeCount = Kinds[k].likeCount
       /\ other.isVerified = Kinds[k].isVerified
       /\ simpleSentimentAnalysis(other.textOriginal) = KindFacts[k].fallback

\* C28: the analysis of comments that differ only in what the spam, bot and
\* trust heuristics make of them (other author names, other wording of the
\* same length and keywords) returns the same rating and confidence, with
\* the classifier's sentiments and with the fallback's (taken here after a
\* health response of a non-success status).
C28_HeuristicsDoNotRate ==
  (Done /\ health.fetch = "resolve" /\ (serviceHealthy \/ ~health.ok)) =>
    /\ SameToSampler
    /\ \A other \in {OtherAuthorsResult} :
         /\ other.totalComments = result.totalComments
         /\ other.positiveCount = result.positiveCount
         /\ other.negativeCount = result.negativeCount
         /\ SameNumber(other.rating, result.rating)
         /\ SameNumber(other.confidence, result.confidence)

\* the other authors' comments have another number of spam and of bot-like
\* comments, on the fallback path and on the classifier's
C28_Witness ==
  /\ Done
  /\ health.fetch = "resolve"
  /\ serviceHealthy
  /\ result.totalComments > MaxSmall
  /\ \E k \in 1..(Len(Kinds) \div 2) :
       KindFacts[k].trustScore # KindFacts[k + Len(Kinds) \div 2].trustScore
  /\ \A other \in {OtherAuthorsResult} :
       /\ other.spamCount # result.spamCount
       /\ other.botLikeCount # result.botLikeCount
       /\ other.suspiciousCount # result.suspiciousCount
       /\ SameNumber(other.rating, result.rating)

\* C29: with video stats the summed engagement score lies in -2..6, the
\* label is never "Very Poor", and it is "Poor" exactly when the like score
\* and the comment score are both -1.
C29_EngagementScoreRange ==
  (Done /\ video.present) =>
    \A likeScore \in {qualityLikeScore(video)} :
    \A commentScore \in {qualityCommentScore(result.totalComments, video)} :
      /\ likeScore + commentScore \in (0 - 2)..6
      /\ result.engagementQuality = qualityLabel(likeScore + commentScore)
      /\ result.engagementQuality # "Very Poor"
      /\ result.engagementQuality = "Poor" <=> (likeScore = 0 - 1 /\ commentScore = 0 - 1)

\* the lowest sum: a video without likes and an analysis without comments
C29_Witness ==
  /\ Done
  /\ video.present
  /\ qualityLikeScore(video) = 0 - 1
  /\ qualityCommentScore(result.totalComments, video) = 0 - 1
  /\ result.engagementQuality = "Poor"

\* C30: the handler never calls analyzeComments with an empty comment list:
\* an empty list to analyse is answered with 400 "No comments available for
\* analysis", whatever the comment source returns to each of the fetches of
\* the request.
C30_NeverAnalysesEmpty ==
  /\ route.analyzeCalled => route.comments > 0
  /\ (route.pc = "responded" /\ route.status = 200) => route.comments > 0

====
